---- MODULE Spec2Model ----
(***************************************************************************)
(* Transcript-coordinate to genomic-coordinate translation                 *)
(* (src/InvitaeTech.py): is_cigar_valid, cigar_str_to_list,                *)
(* get_genome_pos, get_transcript_dict and query_transcript.               *)
(*                                                                         *)
(* A text is a sequence of one-character strings.  Three specifications:   *)
(*   Spec          one run of query_transcript, the two input files read   *)
(*                 line by line;                                           *)
(*   SpecResolve   one call of get_genome_pos, the loop taken one          *)
(*                 iteration at a time;                                    *)
(*   SpecValidate  one call of is_cigar_valid on an arbitrary text.        *)
(***************************************************************************)
EXTENDS Integers, Sequences, FiniteSets, TLC

VARIABLES
    \* ---- query_transcript (Spec)
    pc,               \* "load" | "query" | "done" | "error"
    transcripts,      \* the dict built by get_transcript_dict
    tr_lines,         \* history: the transcript lines read so far
    q_lines,          \* history: the query lines read so far
    out_f,            \* "unopened" | "open" | "closed": the output file
    out,              \* the rows written to the output file
    err,              \* which error ended the run ("" while none)
    \* ---- get_genome_pos (SpecResolve)
    alignment,        \* the run-length pairs the encoding was written from
    cigar_str, start_pos, transcript_coord,    \* the arguments
    fpc,              \* "call" | "check" | "loop" | "done" | "raised"
    cigar_list, genome_pos, transcript_idx,    \* the locals
    pos_i,            \* number of entries of cigar_list the loop has taken
    ret,              \* the returned value
    \* ---- is_cigar_valid (SpecValidate)
    vstr,             \* the argument
    vres              \* "none" before the call, then "True" | "False"

progVars == <<pc, transcripts, tr_lines, q_lines, out_f, out, err>>
fnVars == <<alignment, cigar_str, start_pos, transcript_coord, fpc, cigar_list,
            genome_pos, transcript_idx, pos_i, ret>>
valVars == <<vstr, vres>>
vars == <<progVars, fnVars, valVars>>

----------------------------------------------------------------------------
\* Bounds of the model.

MaxRuns == 3
MaxRunLen == 2
TwoDigitRun == 12
MaxCoord == 3
MaxStrLen == 3
MaxLines == 2
MaxQueries == 2

----------------------------------------------------------------------------
\* Texts and Python's conversions.

Digits == {"0", "1", "2", "3", "4", "5", "6", "7", "8", "9"}

\* str.isnumeric() of one character
IsNumeric(char) == char \in Digits

DigitVal(char) ==
    CASE char = "0" -> 0 [] char = "1" -> 1 [] char = "2" -> 2
      [] char = "3" -> 3 [] char = "4" -> 4 [] char = "5" -> 5
      [] char = "6" -> 6 [] char = "7" -> 7 [] char = "8" -> 8
      [] char = "9" -> 9

RECURSIVE DecimalValue(_)
\* the value of a non-empty text of digits, most significant digit first
DecimalValue(s) ==
    IF Len(s) = 1 THEN DigitVal(s[1])
    ELSE 10 * DecimalValue(SubSeq(s, 1, Len(s) - 1)) + DigitVal(s[Len(s)])

AllDigits(s) == \A i \in 1..Len(s) : s[i] \in Digits

\* int(text): [ok |-> FALSE] stands for ValueError
PyInt(s) ==
    IF s # <<>> /\ AllDigits(s)
    THEN [ok |-> TRUE, val |-> DecimalValue(s)]
    ELSE IF Len(s) >= 2 /\ s[1] \in {"-", "+"} /\ AllDigits(Tail(s))
    THEN [ok |-> TRUE,
          val |-> IF s[1] = "-" THEN 0 - DecimalValue(Tail(s))
                  ELSE DecimalValue(Tail(s))]
    ELSE [ok |-> FALSE, val |-> 0]

RECURSIVE Repeat(_, _)
\* n * [x]
Repeat(n, x) == IF n <= 0 THEN <<>> ELSE <<x>> \o Repeat(n - 1, x)

----------------------------------------------------------------------------
\* is_cigar_valid

RECURSIVE ReMatch(_, _, _)
\* re.match(r'^([0-9]+[M|I|D])+$', s) from character i on.  q is where the
\* pattern stands: "start" (a group must begin), "digits" (inside [0-9]+),
\* "group" (a group is complete).  The class [M|I|D] holds the four
\* characters M, |, I and D; $ matches at the end and before a final newline.
ReMatch(s, i, q) ==
    IF i > Len(s) THEN q = "group"
    ELSE IF q = "group" /\ s[i] = "\n" /\ i = Len(s) THEN TRUE
    ELSE IF s[i] \in Digits THEN ReMatch(s, i + 1, "digits")
    ELSE IF q = "digits" /\ s[i] \in {"M", "|", "I", "D"}
    THEN ReMatch(s, i + 1, "group")
    ELSE FALSE

is_cigar_valid(s) == ReMatch(s, 1, "start")

----------------------------------------------------------------------------
\* cigar_str_to_list

\* a run-length read from its last digit only
ExtendRun_LastDigit(num_str, char) == Repeat(DigitVal(num_str[Len(num_str)]), char)

\* int(num_str) * [char]
ExtendRun(num_str, char) == Repeat(DecimalValue(num_str), char)

RECURSIVE CigarLoop(_, _, _, _)
\* the for loop of cigar_str_to_list from character i on; int('') raises
CigarLoop(s, i, num_str, list) ==
    IF i > Len(s) THEN [ok |-> TRUE, list |-> list]
    ELSE IF IsNumeric(s[i]) THEN CigarLoop(s, i + 1, Append(num_str, s[i]), list)
    ELSE IF num_str = <<>> THEN [ok |-> FALSE, list |-> <<>>]
    ELSE CigarLoop(s, i + 1, <<>>, list \o ExtendRun(num_str, s[i]))

cigar_str_to_list(s) == CigarLoop(s, 1, <<>>, <<>>)

----------------------------------------------------------------------------
\* get_genome_pos

\* len(cigar_list) - cigar_list.count('D')
TranscriptLen(list) ==
    Len(list) - Cardinality({i \in 1..Len(list) : list[i] = "D"})

\* Values a call ends with.
IntResult(n) == [kind |-> "int", val |-> n]
NAResult == [kind |-> "NA", val |-> 0]
ValueError == [kind |-> "ValueError", val |-> 0]
NoResult == [kind |-> "none", val |-> 0]

\* the guard taken one entry too far
WalkOn_Inclusive(t_idx, t_coord) == t_idx <= t_coord

\* The guard of the loop body: the walk goes on while it holds.
WalkOn(t_idx, t_coord) == t_idx < t_coord

\* the loop body with a Deletion counted as a transcript position
WalkBody_DeletionCounted(st, p, t_coord) ==
    IF WalkOn(st.idx, t_coord)
    THEN CASE p \in {"M", "D"} ->
                [idx |-> st.idx + 1, gpos |-> st.gpos + 1, at |-> "loop"]
           [] p = "I" -> [idx |-> st.idx + 1, gpos |-> st.gpos,
                          at |-> IF st.idx + 1 = t_coord THEN "NA" ELSE "loop"]
           [] OTHER -> st
    ELSE [st EXCEPT !.at = "break"]

\* One iteration of the for loop on entry p.  st.at is "loop" while the loop
\* goes on, "break" after the break, "NA" after return 'NA'.
WalkBody(st, p, t_coord) ==
    IF WalkOn(st.idx, t_coord)
    THEN CASE p = "M" -> [idx |-> st.idx + 1, gpos |-> st.gpos + 1, at |-> "loop"]
           [] p = "D" -> [idx |-> st.idx, gpos |-> st.gpos + 1, at |-> "loop"]
           [] p = "I" -> [idx |-> st.idx + 1, gpos |-> st.gpos,
                          at |-> IF st.idx + 1 = t_coord THEN "NA" ELSE "loop"]
           [] OTHER -> st
    ELSE [st EXCEPT !.at = "break"]

RECURSIVE Walk(_, _, _, _)
\* the for loop from entry i on, and the return that follows it
Walk(list, i, st, t_coord) ==
    IF st.at = "NA" THEN NAResult
    ELSE IF st.at = "break" \/ i > Len(list) THEN IntResult(st.gpos)
    ELSE Walk(list, i + 1, WalkBody(st, list[i], t_coord), t_coord)

\* the range check off by one
OutsideQuery_Strict(t_coord, list) == t_coord > TranscriptLen(list)

\* The range check made before the loop.
OutsideQuery(t_coord, list) == t_coord >= TranscriptLen(list)

get_genome_pos(t_coord, s, start) ==
    LET cl == cigar_str_to_list(s) IN
    IF ~cl.ok THEN ValueError
    ELSE IF OutsideQuery(t_coord, cl.list) THEN ValueError
    ELSE Walk(cl.list, 1, [idx |-> -1, gpos |-> start - 1, at |-> "loop"], t_coord)

----------------------------------------------------------------------------
\* Inputs of the calls.

RECURSIVE Decimal(_)
\* the decimal text of a natural number
Decimal(n) ==
    LET d == <<"0", "1", "2", "3", "4", "5", "6", "7", "8", "9">>[(n % 10) + 1] IN
    IF n < 10 THEN <<d>> ELSE Append(Decimal(n \div 10), d)

RECURSIVE Encode(_)
\* the encoding text of a sequence of (run-length, operator) pairs
Encode(runs) ==
    IF runs = <<>> THEN <<>>
    ELSE Decimal(runs[1].n) \o <<runs[1].op>> \o Encode(Tail(runs))

Operators == {"M", "I", "D"}
RunLens == (1..MaxRunLen) \cup {TwoDigitRun}
RunPairs == [n : RunLens, op : Operators]
Alignments == UNION {[1..k -> RunPairs] : k \in 1..MaxRuns}
StartSet == {0, 3}
CoordSet == (-1)..MaxCoord

Alphabet == {"0", "1", "M", "I", "D", "|", "N", "\n"}
Texts == UNION {[1..k -> Alphabet] : k \in 0..MaxStrLen}

EmptyDict == [x \in {} |-> 0]

ProgIdle ==
    /\ pc = "idle" /\ transcripts = EmptyDict /\ tr_lines = <<>> /\ q_lines = <<>>
    /\ out_f = "unopened" /\ out = <<>> /\ err = ""

FnIdle ==
    /\ alignment = <<>> /\ cigar_str = <<>> /\ start_pos = 0
    /\ transcript_coord = 0 /\ fpc = "idle" /\ cigar_list = <<>>
    /\ genome_pos = 0 /\ transcript_idx = 0 /\ pos_i = 0 /\ ret = NoResult

ValIdle == vstr = <<>> /\ vres = "idle"

----------------------------------------------------------------------------
\* SpecValidate: one call of is_cigar_valid.

InitValidate ==
    /\ vstr \in Texts
    /\ vres = "none"
    /\ ProgIdle /\ FnIdle

IsCigarValid ==
    /\ vres = "none"
    /\ vres' = IF is_cigar_valid(vstr) THEN "True" ELSE "False"
    /\ UNCHANGED <<vstr, progVars, fnVars>>

NextValidate == IsCigarValid

SpecValidate == InitValidate /\ [][NextValidate]_vars

----------------------------------------------------------------------------
\* SpecResolve: one call of get_genome_pos, step by step.

InitResolve ==
    /\ alignment \in Alignments
    /\ cigar_str = Encode(alignment)
    /\ start_pos \in StartSet
    /\ transcript_coord \in CoordSet
    /\ fpc = "call"
    /\ cigar_list = <<>> /\ genome_pos = 0 /\ transcript_idx = 0
    /\ pos_i = 0 /\ ret = NoResult
    /\ ProgIdle /\ ValIdle

\* lines 157-159: the expansion and the two cursors
Expand ==
    /\ fpc = "call"
    /\ LET cl == cigar_str_to_list(cigar_str) IN
       IF cl.ok
       THEN /\ cigar_list' = cl.list
            /\ genome_pos' = start_pos - 1
            /\ transcript_idx' = -1
            /\ fpc' = "check"
            /\ ret' = ret
       ELSE /\ fpc' = "raised"
            /\ ret' = ValueError
            /\ UNCHANGED <<cigar_list, genome_pos, transcript_idx>>
    /\ UNCHANGED <<alignment, cigar_str, start_pos, transcript_coord, pos_i>>
    /\ UNCHANGED <<progVars, valVars>>

\* lines 162-165: the range check
RangeCheck ==
    /\ fpc = "check"
    /\ IF OutsideQuery(transcript_coord, cigar_list)
       THEN fpc' = "raised" /\ ret' = ValueError
       ELSE fpc' = "loop" /\ ret' = ret
    /\ UNCHANGED <<alignment, cigar_str, start_pos, transcript_coord, cigar_list,
                   genome_pos, transcript_idx, pos_i>>
    /\ UNCHANGED <<progVars, valVars>>

\* lines 167-183: one iteration of the for loop (a break or return 'NA' ends
\* the call)
LoopStep ==
    /\ fpc = "loop"
    /\ pos_i < Len(cigar_list)
    /\ LET st == WalkBody([idx |-> transcript_idx, gpos |-> genome_pos,
                           at |-> "loop"], cigar_list[pos_i + 1], transcript_coord)
       IN /\ transcript_idx' = st.idx
          /\ genome_pos' = st.gpos
          /\ pos_i' = pos_i + 1
          /\ fpc' = IF st.at = "loop" THEN "loop" ELSE "done"
          /\ ret' = CASE st.at = "NA" -> NAResult
                      [] st.at = "break" -> IntResult(st.gpos)
                      [] OTHER -> ret
    /\ UNCHANGED <<alignment, cigar_str, start_pos, transcript_coord, cigar_list>>
    /\ UNCHANGED <<progVars, valVars>>

\* line 185: the loop ran out of entries
LoopEnd ==
    /\ fpc = "loop"
    /\ pos_i = Len(cigar_list)
    /\ fpc' = "done"
    /\ ret' = IntResult(genome_pos)
    /\ UNCHANGED <<alignment, cigar_str, start_pos, transcript_coord, cigar_list,
                   genome_pos, transcript_idx, pos_i>>
    /\ UNCHANGED <<progVars, valVars>>

NextResolve == Expand \/ RangeCheck \/ LoopStep \/ LoopEnd

SpecResolve == InitResolve /\ [][NextResolve]_vars

----------------------------------------------------------------------------
\* Reference definitions on the run-length pairs, for the claims below.

RECURSIVE RefExpand(_)
\* each run's operator repeated run-length times, in encoding order
RefExpand(runs) ==
    IF runs = <<>> THEN <<>>
    ELSE [i \in 1..runs[1].n |-> runs[1].op] \o RefExpand(Tail(runs))

RECURSIVE SumRuns(_, _)
\* the sum of the run-lengths of the runs whose operator is in ops
SumRuns(runs, ops) ==
    IF runs = <<>> THEN 0
    ELSE (IF runs[1].op \in ops THEN runs[1].n ELSE 0) + SumRuns(Tail(runs), ops)

\* the number of entries among the first n of list that are in ops
CountIn(list, n, ops) == Cardinality({j \in 1..n : list[j] \in ops})

\* the index in list of its (k+1)-th non-Deletion entry
TargetIndex(list, k) ==
    CHOOSE i \in 1..Len(list) :
        list[i] # "D" /\ CountIn(list, i - 1, {"M", "I"}) = k

\* the result the expanded alignment gives for transcript coordinate k
RefResult(list, k, start) ==
    LET e == TargetIndex(list, k) IN
    IF list[e] = "I" THEN NAResult
    ELSE IntResult(start + CountIn(list, e - 1, {"M", "D"}))

RECURSIVE FullScan(_, _, _, _, _)
\* the walk of the expanded alignment taken to its last entry: an entry met
\* once the transcript cursor has reached k has no effect
FullScan(list, i, t_idx, g, k) ==
    IF i > Len(list) THEN IntResult(g)
    ELSE IF t_idx >= k THEN FullScan(list, i + 1, t_idx, g, k)
    ELSE IF list[i] = "M" THEN FullScan(list, i + 1, t_idx + 1, g + 1, k)
    ELSE IF list[i] = "D" THEN FullScan(list, i + 1, t_idx, g + 1, k)
    ELSE IF t_idx + 1 = k THEN NAResult
    ELSE FullScan(list, i + 1, t_idx + 1, g, k)

InRange == 0 <= transcript_coord /\ transcript_coord < SumRuns(alignment, {"M", "I"})
Ended == fpc \in {"done", "raised"}
OpsOf(runs) == {runs[i].op : i \in 1..Len(runs)}

----------------------------------------------------------------------------
\* Claims about get_genome_pos and cigar_str_to_list (SpecResolve).

\* C1: for a valid encoding and an in-range transcript coordinate k the call
\* returns what the expanded alignment says: 'NA' when the (k+1)-th
\* non-Deletion entry is an Insertion, and start_pos plus the number of Match
\* and Deletion entries before it when it is a Match.
C1_MatchesReference ==
    (Ended /\ InRange) =>
        /\ fpc = "done"
        /\ ret = RefResult(RefExpand(alignment), transcript_coord, start_pos)

\* a Match reached past an Insertion and a Deletion
C1_Witness ==
    /\ fpc = "done" /\ InRange /\ ret.kind = "int"
    /\ {"I", "D"} \subseteq {cigar_list[j] : j \in 1..(pos_i - 1)}
    /\ ret.val # start_pos + transcript_coord

\* an insertion-only encoding answers 'NA'
C1_WitnessNA ==
    /\ fpc = "done" /\ OpsOf(alignment) = {"I"} /\ transcript_coord >= 1
    /\ ret = NAResult

\* C2: for a non-negative coordinate the call raises exactly when the
\* coordinate is >= the transcript length (the sum of the M and I
\* run-lengths, which is the number of non-Deletion entries); it raises before
\* the walk has taken any entry, and the walk is entered only in range.
C2_RangeErrorExactly ==
    transcript_coord >= 0 =>
        /\ fpc \in {"check", "loop", "done", "raised"} =>
               TranscriptLen(cigar_list) = SumRuns(alignment, {"M", "I"})
        /\ fpc = "raised" =>
               /\ ~InRange /\ ret = ValueError /\ pos_i = 0
               /\ transcript_idx = -1 /\ genome_pos = start_pos - 1
        /\ fpc \in {"loop", "done"} => InRange
        /\ fpc = "done" => ret.kind \in {"int", "NA"}

\* the coordinate equal to the transcript length raises
C2_Witness ==
    /\ fpc = "raised" /\ "D" \in OpsOf(alignment)
    /\ transcript_coord = SumRuns(alignment, {"M", "I"})

\* C5: cigar_str_to_list returns each run's operator repeated run-length
\* times, in encoding order, a multi-digit run-length read as one decimal
\* number; the length of the result is the sum of the run-lengths.
C5_ExpansionIsRunsRepeated ==
    fpc \in {"check", "loop", "done", "raised"} =>
        /\ cigar_list = RefExpand(alignment)
        /\ Len(cigar_list) = SumRuns(alignment, Operators)

\* an expansion of several runs, one of them two digits long
C5_Witness ==
    /\ fpc = "check" /\ Len(alignment) >= 2
    /\ \E i \in 1..Len(alignment) : alignment[i].n >= 10
    /\ Len(cigar_list) > 10

\* C9: the early exit returns what the walk taken to the last entry returns,
\* and once the transcript cursor has reached the coordinate the next
\* iteration leaves both cursors alone and returns the genomic cursor.
C9_EarlyExitIsFullScan ==
    /\ []((fpc = "done" /\ InRange) =>
            ret = FullScan(cigar_list, 1, -1, start_pos - 1, transcript_coord))
    /\ [][(fpc = "loop" /\ InRange /\ transcript_idx >= transcript_coord) =>
            /\ genome_pos' = genome_pos
            /\ transcript_idx' = transcript_idx
            /\ fpc' = "done"
            /\ ret' = IntResult(genome_pos)]_vars

\* the call broke out on a Deletion that follows the target, entries left
C9_Witness ==
    /\ fpc = "done" /\ InRange /\ ret.kind = "int"
    /\ transcript_idx = transcript_coord
    /\ pos_i >= 2 /\ pos_i < Len(cigar_list)
    /\ cigar_list[pos_i] = "D"

\* C10: a call that returns without raising returns 'NA' or a genomic
\* position covered by the alignment, from start_pos to start_pos plus the
\* number of Match and Deletion entries minus one.
C10_ReturnedPositionIsCovered ==
    (fpc = "done" /\ ret.kind = "int") =>
        /\ start_pos <= ret.val
        /\ ret.val <= start_pos + SumRuns(alignment, {"M", "D"}) - 1

----------------------------------------------------------------------------
\* Claims about is_cigar_valid (SpecValidate).

RECURSIVE Grammar(_, _, _, _)
\* s from character i on is (<positive integer><operator>)*, operator in ops,
\* where num holds the digits of the run being read
Grammar(s, i, num, ops) ==
    IF i > Len(s) THEN num = <<>> /\ Len(s) > 0
    ELSE IF s[i] \in Digits THEN Grammar(s, i + 1, Append(num, s[i]), ops)
    ELSE /\ s[i] \in ops
         /\ num # <<>>
         /\ DecimalValue(num) >= 1
         /\ Grammar(s, i + 1, <<>>, ops)

\* C3: is_cigar_valid returns True only for a text that is one or more
\* (<positive integer><operator>) runs with operator in {M, I, D}.
C3_OnlyGrammarAccepted ==
    vres = "True" => Grammar(vstr, 1, <<>>, {"M", "I", "D"})

\* C4: is_cigar_valid rejects every encoding made of Deletion runs only.
C4_AllDeletionRejected ==
    (vres # "none" /\ Grammar(vstr, 1, <<>>, {"D"})) => vres = "False"

----------------------------------------------------------------------------
\* Spec: one run of query_transcript.

TrIds == {"TR1", "TR2"}
Chroms == {"CHR1", "CHR2"}
PosTexts == {<<"3">>, <<"1", "0">>, <<"x">>}
CigarTexts == {<<"1", "M", "1", "D", "1", "M">>, <<"1", "I", "2", "M">>,
               <<"2", "D">>, <<"2", "N">>}
\* a line of the transcript file after split and strip: its number of
\* columns and, when there are four, the columns
TranscriptLines ==
    [cols : {4}, tr_id : TrIds, chrom : Chroms, pos : PosTexts, cigar : CigarTexts]
    \cup {[cols |-> 3, tr_id |-> "TR1", chrom |-> "CHR1", pos |-> <<"1", "0">>,
           cigar |-> <<>>]}

QueryIds == TrIds \cup {"TR3"}
CoordTexts == {<<"0">>, <<"1">>, <<"2">>, <<"-", "1">>, <<"x">>}
\* a line of the query file after split and strip
QueryLines ==
    [cols : {2}, tr_id : QueryIds, coord : CoordTexts]
    \cup {[cols |-> 1, tr_id |-> "TR1", coord |-> <<>>]}

\* transcripts[tr_id] = {...}
DictSet(dict, key, value) ==
    [x \in (DOMAIN dict) \cup {key} |-> IF x = key THEN value ELSE dict[x]]

\* the checks of one transcript line without the test for a duplicate
LineError_NoDuplicateTest(line, dict) ==
    IF line.cols # 4 THEN "Incorrect format"
    ELSE IF ~is_cigar_valid(line.cigar) THEN "Invalid cigar"
    ELSE IF ~PyInt(line.pos).ok THEN "invalid literal for int()"
    ELSE ""

\* The checks get_transcript_dict makes of one line, in the order it makes
\* them: the error raised, or "" when the line is stored.
LineError(line, dict) ==
    IF line.cols # 4 THEN "Incorrect format"
    ELSE IF ~is_cigar_valid(line.cigar) THEN "Invalid cigar"
    ELSE IF line.tr_id \notin DOMAIN dict
    THEN (IF ~PyInt(line.pos).ok THEN "invalid literal for int()" ELSE "")
    ELSE "not unique"

\* the row written first in the file instead of last
WriteRow_First(rows, row) == <<row>> \o rows

\* out_writer.writerow(row)
WriteRow(rows, row) == Append(rows, row)

\* The checks and the lookup query_transcript makes of one line, in the
\* order it makes them: the error raised, or "" when a row is written.
QueryError(line, dict) ==
    IF line.cols # 2 THEN "Incorrect format"
    ELSE IF ~PyInt(line.coord).ok THEN "invalid literal for int()"
    ELSE IF line.tr_id \notin DOMAIN dict THEN "KeyError"
    ELSE IF get_genome_pos(PyInt(line.coord).val, dict[line.tr_id].cigar,
                           dict[line.tr_id].gen_start) = ValueError
    THEN "outside of the query"
    ELSE ""

\* [tr_id, tr_coord, gen_chrom, gen_pos]
QueryRow(line, dict) ==
    [tr_id |-> line.tr_id,
     tr_coord |-> PyInt(line.coord).val,
     gen_chrom |-> dict[line.tr_id].gen_chrom,
     gen_pos |-> get_genome_pos(PyInt(line.coord).val, dict[line.tr_id].cigar,
                                dict[line.tr_id].gen_start)]

Init ==
    /\ pc = "load"
    /\ transcripts = EmptyDict
    /\ tr_lines = <<>> /\ q_lines = <<>>
    /\ out_f = "unopened" /\ out = <<>> /\ err = ""
    /\ FnIdle /\ ValIdle

\* get_transcript_dict, one line of the file: the line is stored, or the
\* error it raises ends the run with nothing returned
LoadLine ==
    /\ pc = "load"
    /\ Len(tr_lines) < MaxLines
    /\ \E line \in TranscriptLines :
        /\ tr_lines' = Append(tr_lines, line)
        /\ IF LineError(line, transcripts) = ""
           THEN /\ transcripts' = DictSet(transcripts, line.tr_id,
                        [gen_chrom |-> line.chrom,
                         gen_start |-> PyInt(line.pos).val,
                         cigar |-> line.cigar])
                /\ UNCHANGED <<pc, err>>
           ELSE /\ pc' = "error"
                /\ err' = LineError(line, transcripts)
                /\ transcripts' = EmptyDict
    /\ UNCHANGED <<q_lines, out_f, out, fnVars, valVars>>

\* the transcript file has no more lines: get_transcript_dict returns and
\* query_transcript opens the output file
LoadEnd ==
    /\ pc = "load"
    /\ pc' = "query"
    /\ out_f' = "open"
    /\ out' = <<>>
    /\ UNCHANGED <<transcripts, tr_lines, q_lines, err, fnVars, valVars>>

\* query_transcript, one line of the query file: a row is written, or the
\* error raised ends the run, the with statement closing the output file
QueryLine ==
    /\ pc = "query"
    /\ Len(q_lines) < MaxQueries
    /\ \E line \in QueryLines :
        /\ q_lines' = Append(q_lines, line)
        /\ IF QueryError(line, transcripts) = ""
           THEN /\ out' = WriteRow(out, QueryRow(line, transcripts))
                /\ UNCHANGED <<pc, err, out_f>>
           ELSE /\ pc' = "error"
                /\ err' = QueryError(line, transcripts)
                /\ out_f' = "closed"
                /\ out' = out
    /\ UNCHANGED <<transcripts, tr_lines, fnVars, valVars>>

\* the query file has no more lines: the output file is closed
QueryEnd ==
    /\ pc = "query"
    /\ pc' = "done"
    /\ out_f' = "closed"
    /\ UNCHANGED <<transcripts, tr_lines, q_lines, out, err, fnVars, valVars>>

Next == LoadLine \/ LoadEnd \/ QueryLine \/ QueryEnd

Spec == Init /\ [][Next]_vars

----------------------------------------------------------------------------
\* Claims about get_transcript_dict and query_transcript (Spec).

\* line i has a column count other than 4, an encoding is_cigar_valid
\* refuses, or the identifier of an earlier line
BadLine(i) ==
    \/ tr_lines[i].cols # 4
    \/ ~is_cigar_valid(tr_lines[i].cigar)
    \/ \E j \in 1..(i - 1) : tr_lines[j].tr_id = tr_lines[i].tr_id

\* C6: a run without error writes one row per query line, in the order of
\* the query lines, and row i is (identifier, coordinate, chromosome of the
\* identifier, get_genome_pos of the coordinate on the identifier's record).
C6_OneRowPerQueryInOrder ==
    pc = "done" =>
        /\ Len(out) = Len(q_lines)
        /\ \A i \in 1..Len(q_lines) :
              LET q == q_lines[i]
                  t == transcripts[q.tr_id]
                  k == PyInt(q.coord).val
              IN /\ out[i].tr_id = q.tr_id
                 /\ out[i].tr_coord = k
                 /\ out[i].gen_chrom = t.gen_chrom
                 /\ out[i].gen_pos = get_genome_pos(k, t.cigar, t.gen_start)
                 /\ out[i].gen_pos.kind \in {"int", "NA"}

\* two queries of different transcripts answered, the second one 'NA'
C6_Witness ==
    /\ pc = "done" /\ Len(out) = 2
    /\ out[1].tr_id # out[2].tr_id
    /\ out[1].gen_pos.kind = "int" /\ out[2].gen_pos = NAResult

\* C7: a transcript line with a column count other than 4, an invalid
\* encoding or a repeated identifier fails the load wherever it stands: no
\* table is returned, no query is read or resolved, no row is written; and
\* once a query is read the table holds every line of the transcript file.
C7_BadLineFailsLoad ==
    /\ (\E i \in 1..Len(tr_lines) : BadLine(i)) =>
          /\ pc = "error" /\ err # ""
          /\ transcripts = EmptyDict
          /\ q_lines = <<>> /\ out = <<>> /\ out_f = "unopened"
    /\ (q_lines # <<>> \/ pc \in {"query", "done"}) =>
          /\ Len(tr_lines) = Cardinality(DOMAIN transcripts)
          /\ \A i \in 1..Len(tr_lines) :
                LET l == tr_lines[i] IN
                /\ l.tr_id \in DOMAIN transcripts
                /\ transcripts[l.tr_id] =
                      [gen_chrom |-> l.chrom, gen_start |-> PyInt(l.pos).val,
                       cigar |-> l.cigar]

\* the load failed on a repeated identifier in the second line
C7_Witness ==
    /\ pc = "error" /\ Len(tr_lines) = 2 /\ err = "not unique"
    /\ tr_lines[2].cigar # tr_lines[1].cigar

\* C8: a run that a query line ends in error has produced no output rows.
C8_ErrorRunHasNoRows ==
    (pc = "error" /\ q_lines # <<>>) => out = <<>>

====
